---- MODULE Spec2Model ----
(***************************************************************************)
(* Model of the SmartSensors application controller (ofApp) together with  *)
(* the stream producer callback and the training-sample checker slot.      *)
(*                                                                         *)
(* Two threads are modelled: the main (UI) thread, which runs update(),    *)
(* keyPressed(), keyReleased() and loadTrainingData() one handler at a     *)
(* time, and the stream's producer thread, which runs onDataIn().          *)
(* A matrix is abstracted to its shape (rows, cols) and a stored training   *)
(* sample to its label and dimensionality; the numeric contents of samples *)
(* never influence the control flow of the controller.                     *)
(***************************************************************************)
EXTENDS Integers, Sequences, FiniteSets, TLC

\* ------------------------------------------------------------------ bounds
MaxLabel == 2            \* label keys '1'..'0'+MaxLabel are pressed (code: '1'..'9')
MaxRows == 1             \* rows in one batch delivered by the stream
MaxSeqRows == 2          \* rows collected in one recording session
MaxSamples == 2          \* samples held by the training dataset
NumOutputDimensions == 3 \* istream_->getNumOutputDimensions()
PipelineModules == 1     \* pre-processing and feature modules of the user's pipeline
MaxInt == 5              \* largest magnitude of a tuneable's value
MaxFine == 2             \* doubles within MaxFine units of the last digit of 0
DoubleDigits == 7        \* decimal digits carried by a modelled double
MaxEvents == 2           \* UI events on the tuneable's control
SmallFeatures == 2       \* outputs of a feature module with few outputs
MaxFeatureModules == 2   \* feature modules of a user's pipeline
MaxPending == 2          \* delivered rows not yet seen by a tick

kTooManyFeaturesThreshold == 32

\* --------------------------------------------------------------- key codes
Key0 == 48
Key1 == 49
Key9 == 57
KeyT == 116
KeyL == 108
KeyH == 104
KeyS == 115
KeyE == 101
KeyTabP == 80
KeyTabT == 84
KeyTabA == 65
KeyOther == 120

LabelKeys == Key1 .. (Key0 + MaxLabel)
\* the keys pressed in the bounded runs; the keys that only change what is drawn
\* ('h', 'P', 'T', 'A') are handled by KeySwitch like the others
Keys == LabelKeys \cup {KeyT, KeyL, KeyS, KeyE, KeyOther}
Labels == 1 .. MaxLabel

\* ---------------------------------------------------------------- matrices
EmptyMatrix == [rows |-> 0, cols |-> 0]

\* MatrixDouble::clear(): no rows and no columns are left
MatrixClear(m) == EmptyMatrix

\* MatrixDouble::push_back(row): the first row fixes the column count
MatrixPushBack(m, dim) ==
    IF m.rows = 0 THEN [rows |-> 1, cols |-> dim]
    ELSE [rows |-> m.rows + 1, cols |-> m.cols]

\* the batches the stream can deliver: 1..MaxRows samples of dimension D
StreamBatches == { [rows |-> r, cols |-> NumOutputDimensions] : r \in 1 .. MaxRows }

\* ---------------------------------------------------------------- datasets
\* a default-constructed TimeSeriesClassificationData
NewDataset == [numDimensions |-> 0, data |-> << >>, classTracker |-> << >>]

\* setNumDimensions(d) on a dataset: clears it and fixes the dimensionality
SetNumDimensions(ds, d) == [numDimensions |-> d, data |-> << >>, classTracker |-> << >>]

TrackerIndices(ds, label) ==
    { i \in 1 .. Len(ds.classTracker) : ds.classTracker[i].classLabel = label }

\* classTracker() count of a label (0 when the label was never seen)
TrackerCount(ds, label) ==
    IF TrackerIndices(ds, label) = {} THEN 0
    ELSE ds.classTracker[CHOOSE i \in TrackerIndices(ds, label) : TRUE].counter

\* getClassLabelIndexValue(label): 0-based index of the label's tracker, 0 when absent
GetClassLabelIndexValue(ds, label) ==
    IF TrackerIndices(ds, label) = {} THEN 0
    ELSE (CHOOSE i \in TrackerIndices(ds, label) : TRUE) - 1

TrackerAfterAdd(tr, label) ==
    IF \E i \in 1 .. Len(tr) : tr[i].classLabel = label
    THEN [i \in 1 .. Len(tr) |->
            IF tr[i].classLabel = label
            THEN [classLabel |-> label, counter |-> tr[i].counter + 1]
            ELSE tr[i]]
    ELSE Append(tr, [classLabel |-> label, counter |-> 1])

\* addSample(label, sequence): result flag and the dataset afterwards
AddSampleOk(ds, label, m) == m.cols = ds.numDimensions /\ label # 0

AddSample(ds, label, m) ==
    IF AddSampleOk(ds, label, m)
    THEN [numDimensions |-> ds.numDimensions,
          data |-> Append(ds.data, [classLabel |-> label, cols |-> m.cols]),
          classTracker |-> TrackerAfterAdd(ds.classTracker, label)]
    ELSE ds


\* ------------------------------------------------- training-data files
MaxFileSamples == 1      \* samples in a training-data file chosen in the dialog

RECURSIVE LabelSeqs(_)
LabelSeqs(n) ==
    IF n = 0 THEN { << >> }
    ELSE LabelSeqs(n - 1) \cup
         { Append(s, l) : s \in { t \in LabelSeqs(n - 1) : Len(t) = n - 1 }, l \in Labels }

RECURSIVE AddAll(_, _)
AddAll(ds, labels) ==
    IF labels = << >> THEN ds
    ELSE AddAll(AddSample(ds, Head(labels), [rows |-> 1, cols |-> ds.numDimensions]),
                Tail(labels))

\* the datasets a file can hold: recorded from the same stream, a few one-row samples
FileDims == {NumOutputDimensions}
Files == { AddAll(SetNumDimensions(NewDataset, d), s) :
              d \in FileDims, s \in LabelSeqs(MaxFileSamples) }

\* ------------------------------------------------------- sample checkers
\* the checkers a user's setup() can have registered: the documented example
\* and one that rejects every sequence shorter than two rows
Checkers == {"myChecker", "minRowsChecker"}

\* result of the registered checker on a collected sequence
CheckerResult(checker, m) ==
    CASE checker = "myChecker" ->
             IF m.rows = 0 THEN "FAILURE"
             ELSE IF m.rows = 1 THEN "WARNING" ELSE "SUCCESS"
      [] checker = "minRowsChecker" ->
             IF m.rows < 2 THEN "FAILURE" ELSE "SUCCESS"
      [] OTHER -> "SUCCESS"

\* ------------------------------------------------------------------ state
VARIABLES
    keys_down,                   \* keys physically held (the window system's view)
    main_pc,                     \* where the main thread is
    prod_pc,                     \* where the stream's producer thread is
    input_data_mutex_,           \* holder of the mutex: "none", "main", "prod"
    input_data_,                 \* the ingestion buffer
    prod_input,                  \* onDataIn's argument while the callback runs
    raced,                       \* an unsynchronised clear overlapped the callback's write
    row_i,                       \* update()'s loop index i
    started,                     \* istream_->hasStarted()
    trained,                     \* pipeline_->getTrained()
    is_recording_,
    label_,
    sample_data_,
    training_data_,
    plot_samples_info_,
    should_save_training_data_,
    fragment_,
    gui_hide_,
    training_thread_,
    trains_in_progress,          \* invocations of pipeline_->train that have not returned
    checker_calls,               \* calls of the registered sample checker so far
    last,                        \* the last key event handled and what it did
    pipeline_modules,            \* pre-processing and feature modules of *pipeline_
    tick_log,                    \* what update() did with the sample of this iteration
    train_succeeded,             \* a call of pipeline_->train has returned true
    pipeline_loaded,             \* a pipeline read from pipeline.grt is in use
    feature_dims,                \* output sizes of the feature modules of *pipeline_
    plot_features_,              \* per feature module, the number of plots made in setup()
    pending,                     \* rows delivered by the stream and not yet seen by a tick
    tuneable,                    \* the Tuneable made by registerTuneable and its bound state
    tuneable_text,               \* the line toString() returned last
    cb_calls,                    \* invocations of the tuneable's callback
    reloads,                     \* pipeline reloads requested by the tuneable
    tuneable_op                  \* the last call made on the Tuneable

vars == << keys_down, main_pc, prod_pc, input_data_mutex_, input_data_, prod_input,
           raced, row_i, started, trained, is_recording_, label_, sample_data_,
           training_data_, plot_samples_info_, should_save_training_data_,
           fragment_, gui_hide_, training_thread_, trains_in_progress,
           checker_calls, last, pipeline_modules, tick_log, train_succeeded,
           pipeline_loaded, feature_dims, plot_features_, pending,
           tuneable, tuneable_text, cb_calls, reloads, tuneable_op >>

\* the state of the application object and of the two threads
app_vars == << keys_down, main_pc, prod_pc, input_data_mutex_, input_data_, prod_input,
               raced, row_i, started, trained, is_recording_, label_, sample_data_,
               training_data_, plot_samples_info_, should_save_training_data_,
               fragment_, gui_hide_, training_thread_, trains_in_progress,
               checker_calls, last, pipeline_modules, tick_log, train_succeeded,
               pipeline_loaded, feature_dims, plot_features_, pending >>

\* the state of the tuneable registry
tuneable_vars == << tuneable, tuneable_text, cb_calls, reloads, tuneable_op >>

\* the last key event: op, the handler; digit, the key was a label key; for a
\* label key, rec is is_recording_ when the handler was entered and add is what
\* addSample returned
NoEvent == [op |-> "none", digit |-> FALSE, rec |-> FALSE, add |-> "none"]

\* plot_samples_info_ entries: << >> is the empty string, <<n>> is "n samples"
NoInfo == << >>
SamplesInfo(n) == << n >>

\* update()'s dealings with one data_point: preProcessData failed on it, module
\* outputs were read out for it, predict was called on it
NoSample == [failed |-> FALSE, read_out |-> FALSE, predicted |-> FALSE,
             asserted |-> "none"]

\* setup(), parsing the feature modules: a module with fewer outputs than the
\* threshold gets one plot per output, any other module a single plot
PlotsFor(features) ==
    [i \in 1 .. Len(features) |->
        IF features[i] < kTooManyFeaturesThreshold THEN features[i] ELSE 1]

\* the feature modules of the pipeline the user's setup() makes in most runs
DefaultFeatures == << SmallFeatures >>

\* no Tuneable has been registered; no line has been written
NoTuneable == [type_ |-> "NONE", value |-> 0, min_ |-> 0, max_ |-> 0, cb |-> FALSE]
NoLine == [word |-> "", rest |-> << >>]
NoCall == [op |-> "none", line |-> NoLine, ret |-> FALSE]

\* ofApp::ofApp() followed by ofApp::setup(), for a user's pipeline with the
\* given feature modules
InitWith(features) ==
    /\ keys_down = {}
    /\ main_pc = "idle"
    /\ prod_pc = "idle"
    /\ input_data_mutex_ = "none"
    /\ input_data_ = EmptyMatrix
    /\ prod_input = EmptyMatrix
    /\ raced = FALSE
    /\ row_i = 0
    /\ started = FALSE
    /\ trained = FALSE
    /\ is_recording_ = FALSE
    /\ label_ = 0
    /\ sample_data_ = EmptyMatrix
    /\ training_data_ = SetNumDimensions(NewDataset, NumOutputDimensions)
    /\ plot_samples_info_ = [l \in Labels |-> NoInfo]
    /\ should_save_training_data_ = FALSE
    /\ fragment_ = "PIPELINE"
    /\ gui_hide_ = TRUE
    /\ training_thread_ = "empty"
    /\ trains_in_progress = 0
    /\ checker_calls = 0
    /\ last = NoEvent
    /\ pipeline_modules = PipelineModules
    /\ tick_log = NoSample
    /\ train_succeeded = FALSE
    /\ pipeline_loaded = FALSE
    /\ feature_dims = features
    /\ plot_features_ = PlotsFor(features)
    /\ pending = 0
    /\ tuneable = NoTuneable
    /\ tuneable_text = NoLine
    /\ cb_calls = 0
    /\ reloads = 0
    /\ tuneable_op = NoCall

Init == InitWith(DefaultFeatures)

\* the pipelines a user's setup() can make: up to MaxFeatureModules feature
\* modules, each with few outputs or with as many as the threshold
UserFeatures ==
    UNION { [1 .. n -> {SmallFeatures, kTooManyFeaturesThreshold}] :
               n \in 0 .. MaxFeatureModules }

InitAnyPipeline == \E features \in UserFeatures : InitWith(features)


\* ------------------------------------------------------------ keyPressed
IsLabelKey(key) == key >= Key1 /\ key <= Key9

\* values an out-of-bounds read of the class tracker can produce
GarbageCounters == 0 .. MaxSamples

\* std::thread::joinable(): training_thread_ is default-constructed and never assigned
Joinable(th) == th # "empty"

\* "If prior training has not finished, we wait": join() returns once the
\* thread's train call has returned
JoinTrainingThread ==
    IF Joinable(training_thread_)
    THEN trains_in_progress = 0 /\ training_thread_' = "empty"
    ELSE UNCHANGED training_thread_

\* variant: training_func is handed to a detached thread and the handler returns
StartTrainingDetached ==
    /\ main_pc' = "idle"
    /\ trains_in_progress' = trains_in_progress + 1

\* training_func() is called on the calling thread: the handler does not
\* return until pipeline_->train returns
StartTraining ==
    /\ main_pc' = "train"
    /\ trains_in_progress' = trains_in_progress + 1

\* variant: the label-key part without sample_data_.clear()
RecordStartKeepsBuffer(key) ==
    IF IsLabelKey(key) /\ ~is_recording_
    THEN /\ is_recording_' = TRUE
         /\ label_' = key - Key0
         /\ UNCHANGED sample_data_
    ELSE UNCHANGED << is_recording_, label_, sample_data_ >>

\* variant: the label-key part without the test of is_recording_
RecordStartUnguarded(key) ==
    IF IsLabelKey(key)
    THEN /\ is_recording_' = TRUE
         /\ label_' = key - Key0
         /\ sample_data_' = MatrixClear(sample_data_)
    ELSE UNCHANGED << is_recording_, label_, sample_data_ >>

\* the label-key part of keyPressed
RecordStart(key) ==
    IF IsLabelKey(key) /\ ~is_recording_
    THEN /\ is_recording_' = TRUE
         /\ label_' = key - Key0
         /\ sample_data_' = MatrixClear(sample_data_)
    ELSE UNCHANGED << is_recording_, label_, sample_data_ >>

\* ofApp::loadTrainingData(): the dialog's file loads (ok) or does not
LoadTrainingData(ok, file) ==
    LET training_data == IF ok THEN file ELSE NewDataset
    IN /\ training_data_' = training_data
       /\ plot_samples_info_' =
             [l \in Labels |->
                 IF TrackerIndices(training_data, l) # {}
                 THEN SamplesInfo(TrackerCount(training_data, l))
                 ELSE plot_samples_info_[l]]
       /\ should_save_training_data_' = FALSE

\* what the file dialog and load() can give when 'l' is pressed
LoadOutcomes(key) ==
    IF key = KeyL
    THEN { << TRUE, file >> : file \in Files } \cup { << FALSE, NewDataset >> }
    ELSE { << FALSE, NewDataset >> }

\* the switch statement of keyPressed; ok and file are the outcome of the load
KeySwitch(key, ok, file) ==
    CASE key = KeyT ->
            /\ JoinTrainingThread
            /\ StartTraining
            /\ UNCHANGED << started, training_data_, plot_samples_info_,
                            should_save_training_data_, fragment_, gui_hide_ >>
      [] key = KeyL ->
            /\ LoadTrainingData(ok, file)
            /\ UNCHANGED << main_pc, trains_in_progress, training_thread_, started,
                            fragment_, gui_hide_ >>
      [] key = KeyH ->
            /\ gui_hide_' = ~gui_hide_
            /\ UNCHANGED << main_pc, trains_in_progress, training_thread_, started,
                            training_data_, plot_samples_info_,
                            should_save_training_data_, fragment_ >>
      [] key = KeyS ->
            /\ started' = TRUE
            /\ UNCHANGED << main_pc, trains_in_progress, training_thread_,
                            training_data_, plot_samples_info_,
                            should_save_training_data_, fragment_, gui_hide_ >>
      [] key = KeyE ->
            /\ started' = FALSE
            /\ main_pc' = "clear"
            /\ UNCHANGED << trains_in_progress, training_thread_,
                            training_data_, plot_samples_info_,
                            should_save_training_data_, fragment_, gui_hide_ >>
      [] key \in {KeyTabP, KeyTabT, KeyTabA} ->
            /\ fragment_' = (CASE key = KeyTabP -> "PIPELINE"
                               [] key = KeyTabT -> "TRAINING"
                               [] OTHER -> "ANALYSIS")
            /\ UNCHANGED << main_pc, trains_in_progress, training_thread_, started,
                            training_data_, plot_samples_info_,
                            should_save_training_data_, gui_hide_ >>
      [] OTHER ->
            UNCHANGED << main_pc, trains_in_progress, training_thread_, started,
                         training_data_, plot_samples_info_,
                         should_save_training_data_, fragment_, gui_hide_ >>

\* ofApp::keyPressed(key), up to the point where it returns or blocks; ok and
\* file are what the dialog and load() give if the key is 'l'
KeyPressedWith(key, ok, file) ==
    /\ main_pc = "idle"
    /\ keys_down' = keys_down \cup {key}
    /\ RecordStart(key)
    /\ KeySwitch(key, ok, file)
    /\ last' = [op |-> "keyPressed", digit |-> IsLabelKey(key),
                rec |-> IsLabelKey(key) /\ is_recording_, add |-> "none"]
    /\ UNCHANGED << prod_pc, input_data_mutex_, input_data_, prod_input, raced,
                    row_i, trained, checker_calls >>
    /\ UNCHANGED << pipeline_modules, tick_log, train_succeeded, pipeline_loaded >>
    /\ UNCHANGED tuneable_vars
    /\ UNCHANGED << feature_dims, plot_features_, pending >>

KeyPressed(key) ==
    \E outcome \in LoadOutcomes(key) : KeyPressedWith(key, outcome[1], outcome[2])

\* case 'e', second half: input_data_.clear(), no lock taken
ClearInput ==
    /\ main_pc = "clear"
    /\ input_data_' = MatrixClear(input_data_)
    /\ raced' = (prod_pc = "write")
    /\ main_pc' = "idle"
    /\ UNCHANGED << keys_down, prod_pc, input_data_mutex_, prod_input, row_i, started,
                    trained, is_recording_, label_, sample_data_, training_data_,
                    plot_samples_info_, should_save_training_data_, fragment_,
                    gui_hide_, training_thread_, trains_in_progress, checker_calls, last >>
    /\ UNCHANGED << pipeline_modules, tick_log, train_succeeded, pipeline_loaded >>
    /\ UNCHANGED tuneable_vars
    /\ UNCHANGED << feature_dims, plot_features_, pending >>

\* case 't', second half: pipeline_->train(training_data_) returns to the handler
TrainReturn(ok) ==
    /\ main_pc = "train"
    /\ Len(training_data_.data) = 0 => ~ok
    /\ trained' = ok
    /\ fragment_' = IF ok THEN "TRAINING" ELSE fragment_
    /\ trains_in_progress' = trains_in_progress - 1
    /\ main_pc' = "idle"
    /\ UNCHANGED << keys_down, prod_pc, input_data_mutex_, input_data_, prod_input,
                    raced, row_i, started, is_recording_, label_, sample_data_,
                    training_data_, plot_samples_info_, should_save_training_data_,
                    gui_hide_, training_thread_, checker_calls, last >>
    /\ train_succeeded' = (train_succeeded \/ ok)
    /\ UNCHANGED << pipeline_modules, tick_log, pipeline_loaded >>
    /\ UNCHANGED tuneable_vars
    /\ UNCHANGED << feature_dims, plot_features_, pending >>

\* ----------------------------------------------------------- keyReleased
\* variant: the sample is added under the plot index label_ - 1
AddRecordedSampleOffByOne == AddSample(training_data_, label_ - 1, sample_data_)

\* training_data_.addSample(label_, sample_data_)
AddRecordedSample == AddSample(training_data_, label_, sample_data_)

\* ofApp::keyReleased(key); the return value of addSample is not looked at
KeyReleased(key) ==
    /\ main_pc = "idle"
    /\ key \in keys_down
    /\ IsLabelKey(key) => Len(training_data_.data) < MaxSamples
    /\ keys_down' = keys_down \ {key}
    /\ is_recording_' = FALSE
    /\ IF IsLabelKey(key)
       THEN LET ok == AddSampleOk(training_data_, label_, sample_data_)
                ds == AddRecordedSample
                idx == GetClassLabelIndexValue(ds, label_)
            IN /\ training_data_' = ds
               /\ should_save_training_data_' = TRUE
               /\ last' = [op |-> "keyReleased", digit |-> TRUE, rec |-> is_recording_,
                           add |-> IF ok THEN "ok" ELSE "fail"]
               /\ IF idx < Len(ds.classTracker)
                  THEN /\ plot_samples_info_' =
                             [plot_samples_info_ EXCEPT
                                 ![label_] = SamplesInfo(ds.classTracker[idx + 1].counter)]
                       /\ main_pc' = "idle"
                  ELSE \* getClassTracker()[0] on an empty vector
                       \/ /\ \E g \in GarbageCounters :
                                plot_samples_info_' =
                                   [plot_samples_info_ EXCEPT ![label_] = SamplesInfo(g)]
                          /\ main_pc' = "idle"
                       \/ /\ main_pc' = "crashed"
                          /\ UNCHANGED plot_samples_info_
       ELSE /\ last' = [op |-> "keyReleased", digit |-> FALSE, rec |-> FALSE,
                        add |-> "none"]
            /\ UNCHANGED << training_data_, should_save_training_data_,
                            plot_samples_info_, main_pc >>
    /\ UNCHANGED << prod_pc, input_data_mutex_, input_data_, prod_input, raced, row_i,
                    started, trained, label_, sample_data_, fragment_, gui_hide_,
                    training_thread_, trains_in_progress, checker_calls >>
    /\ UNCHANGED << pipeline_modules, tick_log, train_succeeded, pipeline_loaded >>
    /\ UNCHANGED tuneable_vars
    /\ UNCHANGED << feature_dims, plot_features_, pending >>


\* ---------------------------------------------------------------- update
\* std::lock_guard at the top of update(): the tick starts once the mutex is free
UpdateLock ==
    /\ main_pc = "idle"
    /\ input_data_mutex_ = "none"
    /\ is_recording_ => sample_data_.rows + input_data_.rows <= MaxSeqRows
    /\ input_data_mutex_' = "main"
    /\ row_i' = 0
    /\ main_pc' = "loop"
    /\ UNCHANGED << keys_down, prod_pc, input_data_, prod_input, raced, started, trained,
                    is_recording_, label_, sample_data_, training_data_,
                    plot_samples_info_, should_save_training_data_, fragment_,
                    gui_hide_, training_thread_, trains_in_progress, checker_calls, last >>
    /\ UNCHANGED << pipeline_modules, tick_log, train_succeeded, pipeline_loaded >>
    /\ UNCHANGED tuneable_vars
    /\ UNCHANGED << feature_dims, plot_features_, pending >>

\* the guard released when update() returns
UpdateUnlock == input_data_mutex_' = "none"

\* loop head: i < input_data_.getNumRows(), data_point = getRowVector(i); when
\* the loop ends update() returns
UpdateLoop ==
    /\ main_pc = "loop"
    /\ IF row_i < input_data_.rows
       THEN /\ main_pc' = IF started THEN "pipeline" ELSE "predict"
            /\ UNCHANGED << input_data_mutex_, row_i >>
       ELSE /\ main_pc' = "idle"
            /\ row_i' = 0
            /\ UpdateUnlock
    /\ UNCHANGED << keys_down, prod_pc, input_data_, prod_input, raced, started,
                    trained, is_recording_, label_, sample_data_, training_data_,
                    plot_samples_info_, should_save_training_data_, fragment_,
                    gui_hide_, training_thread_, trains_in_progress, checker_calls,
                    last >>
    /\ tick_log' = NoSample
    /\ UNCHANGED << pipeline_modules, train_succeeded, pipeline_loaded >>
    /\ UNCHANGED tuneable_vars
    /\ UNCHANGED << feature_dims, plot_features_, pending >>

\* assert(plot_features_.size() == 1), reached for a feature module whose output
\* has kTooManyFeaturesThreshold values or more
AssertOutcome ==
    IF \E j \in 1 .. Len(feature_dims) : feature_dims[j] >= kTooManyFeaturesThreshold
    THEN (IF Len(plot_features_) = 1 THEN "held" ELSE "failed")
    ELSE "none"

\* if (istream_->hasStarted()): preProcessData(data_point) returns ok; a failure
\* is logged; the outputs of every module are then read out and plotted. A
\* failed assertion aborts the process where assertions are compiled in
UpdatePipeline ==
    /\ main_pc = "pipeline"
    /\ \E ok \in BOOLEAN :
          tick_log' = [failed |-> ~ok, read_out |-> pipeline_modules > 0,
                       predicted |-> FALSE, asserted |-> AssertOutcome]
    /\ \/ main_pc' = "predict"
       \/ AssertOutcome = "failed" /\ main_pc' = "crashed"
    /\ UNCHANGED << keys_down, prod_pc, input_data_mutex_, input_data_, prod_input,
                    raced, row_i, started, trained, is_recording_, label_,
                    sample_data_, training_data_, plot_samples_info_,
                    should_save_training_data_, fragment_, gui_hide_,
                    training_thread_, trains_in_progress, checker_calls, last >>
    /\ UNCHANGED << pipeline_modules, train_succeeded, pipeline_loaded >>
    /\ UNCHANGED tuneable_vars
    /\ UNCHANGED << feature_dims, plot_features_, pending >>

\* variant: predict is called without the test of getTrained()
UpdatePredictUngated ==
    /\ main_pc = "predict"
    /\ sample_data_' = IF is_recording_
                       THEN MatrixPushBack(sample_data_, input_data_.cols)
                       ELSE sample_data_
    /\ row_i' = row_i + 1
    /\ main_pc' = "loop"
    /\ UNCHANGED << keys_down, prod_pc, input_data_mutex_, input_data_, prod_input,
                    raced, started, trained, is_recording_, label_,
                    training_data_, plot_samples_info_, should_save_training_data_,
                    fragment_, gui_hide_, training_thread_, trains_in_progress, checker_calls, last >>
    /\ tick_log' = [tick_log EXCEPT !.predicted = TRUE]
    /\ UNCHANGED << pipeline_modules, train_succeeded, pipeline_loaded >>
    /\ UNCHANGED tuneable_vars
    /\ UNCHANGED << feature_dims, plot_features_, pending >>

\* the rest of the loop body: if (is_recording_) sample_data_.push_back(data_point);
\* if (getTrained()) predict(data_point) and read the classifier outputs; i++
UpdatePredict ==
    /\ main_pc = "predict"
    /\ sample_data_' = IF is_recording_
                       THEN MatrixPushBack(sample_data_, input_data_.cols)
                       ELSE sample_data_
    /\ row_i' = row_i + 1
    /\ main_pc' = "loop"
    /\ UNCHANGED << keys_down, prod_pc, input_data_mutex_, input_data_, prod_input,
                    raced, started, trained, is_recording_, label_,
                    training_data_, plot_samples_info_, should_save_training_data_,
                    fragment_, gui_hide_, training_thread_, trains_in_progress, checker_calls, last >>
    /\ tick_log' = [tick_log EXCEPT !.predicted = trained]
    /\ UNCHANGED << pipeline_modules, train_succeeded, pipeline_loaded >>
    /\ UNCHANGED tuneable_vars
    /\ UNCHANGED << feature_dims, plot_features_, pending >>

\* -------------------------------------------------------------- onDataIn
\* the stream calls onDataIn(input): the lock_guard is taken
OnDataInLock(input) ==
    /\ prod_pc = "idle"
    /\ started
    /\ input_data_mutex_ = "none"
    /\ input_data_mutex_' = "prod"
    /\ prod_input' = input
    /\ prod_pc' = "write"
    /\ UNCHANGED << keys_down, main_pc, input_data_, raced, row_i, started, trained,
                    is_recording_, label_, sample_data_, training_data_,
                    plot_samples_info_, should_save_training_data_, fragment_,
                    gui_hide_, training_thread_, trains_in_progress, checker_calls, last >>
    /\ UNCHANGED << pipeline_modules, tick_log, train_succeeded, pipeline_loaded >>
    /\ UNCHANGED tuneable_vars
    /\ UNCHANGED << feature_dims, plot_features_, pending >>

\* input_data_ = input, then the guard is released; a clear that overlapped
\* the assignment leaves either writer's value
OnDataInWrite ==
    /\ prod_pc = "write"
    /\ input_data_' \in (IF raced THEN {prod_input, EmptyMatrix} ELSE {prod_input})
    /\ raced' = FALSE
    /\ input_data_mutex_' = "none"
    /\ prod_input' = EmptyMatrix
    /\ prod_pc' = "idle"
    /\ UNCHANGED << keys_down, main_pc, row_i, started, trained, is_recording_,
                    label_, sample_data_, training_data_, plot_samples_info_,
                    should_save_training_data_, fragment_, gui_hide_,
                    training_thread_, trains_in_progress, checker_calls, last >>
    /\ UNCHANGED << pipeline_modules, tick_log, train_succeeded, pipeline_loaded >>
    /\ UNCHANGED tuneable_vars
    /\ UNCHANGED << feature_dims, plot_features_, pending >>

\* ------------------------------------------------- whole-handler steps
\* sample_data_ after the loop body ran for n more rows of dimension dim
RECURSIVE PushRows(_, _, _)
PushRows(m, n, dim) ==
    IF n = 0 THEN m ELSE PushRows(MatrixPushBack(m, dim), n - 1, dim)

\* update() from lock to unlock in one step: the mutex is held throughout, so
\* neither onDataIn nor another handler runs in between
Update ==
    /\ main_pc = "idle"
    /\ input_data_mutex_ = "none"
    /\ is_recording_ => sample_data_.rows + input_data_.rows <= MaxSeqRows
    /\ sample_data_' = IF is_recording_
                       THEN PushRows(sample_data_, input_data_.rows, input_data_.cols)
                       ELSE sample_data_
    /\ UNCHANGED << keys_down, main_pc, prod_pc, input_data_mutex_, input_data_,
                    prod_input, raced, row_i, started, trained, is_recording_, label_,
                    training_data_, plot_samples_info_, should_save_training_data_,
                    fragment_, gui_hide_, training_thread_, trains_in_progress,
                    checker_calls, last >>
    /\ UNCHANGED << pipeline_modules, tick_log, train_succeeded, pipeline_loaded >>
    /\ UNCHANGED tuneable_vars
    /\ UNCHANGED << feature_dims, plot_features_ >>

\* a tick, the account of delivered rows not kept
UpdateTick == Update /\ UNCHANGED pending

\* a tick that settles the account: every row in the buffer has now been seen
UpdateTickCounted == Update /\ pending' = 0

\* onDataIn(input) from lock to unlock in one step
DataIn(input) ==
    /\ prod_pc = "idle"
    /\ started
    /\ input_data_mutex_ = "none"
    /\ input_data_' = input
    /\ UNCHANGED << keys_down, main_pc, prod_pc, input_data_mutex_, prod_input, raced,
                    row_i, started, trained, is_recording_, label_, sample_data_,
                    training_data_, plot_samples_info_, should_save_training_data_,
                    fragment_, gui_hide_, training_thread_, trains_in_progress,
                    checker_calls, last >>
    /\ UNCHANGED << pipeline_modules, tick_log, train_succeeded, pipeline_loaded >>
    /\ UNCHANGED tuneable_vars
    /\ UNCHANGED << feature_dims, plot_features_ >>

\* a delivery, the account of delivered rows not kept
OnDataIn(input) == DataIn(input) /\ UNCHANGED pending

\* a delivery entered in the account
OnDataInCounted(input) ==
    /\ pending + input.rows <= MaxPending
    /\ DataIn(input)
    /\ pending' = pending + input.rows

\* ---------------------------------------------------------- loadPipeline
\* a default-constructed GestureRecognitionPipeline: no modules, not trained
NewPipeline == [modules |-> 0, trained |-> FALSE, features |-> << >>]

\* what pipeline.grt can hold: a pipeline saved earlier, trained or not
PipelineFiles ==
    { [modules |-> m, trained |-> t,
       features |-> IF m = 0 THEN << >> ELSE DefaultFeatures] :
          m \in 0 .. PipelineModules, t \in BOOLEAN }

\* ofApp::loadPipeline() (the "Load Pipeline" button): a failed load is logged
\* and the local pipeline is assigned to *pipeline_ all the same
LoadPipeline(ok, file) ==
    /\ main_pc = "idle"
    /\ LET pipeline == IF ok THEN file ELSE NewPipeline
       IN /\ pipeline_modules' = pipeline.modules
          /\ trained' = pipeline.trained
          /\ feature_dims' = pipeline.features
    /\ pipeline_loaded' = ok
    /\ UNCHANGED << keys_down, main_pc, prod_pc, input_data_mutex_, input_data_,
                    prod_input, raced, row_i, started, is_recording_, label_,
                    sample_data_, training_data_, plot_samples_info_,
                    should_save_training_data_, fragment_, gui_hide_,
                    training_thread_, trains_in_progress, checker_calls, last,
                    tick_log, train_succeeded >>
    /\ UNCHANGED tuneable_vars
    /\ UNCHANGED << plot_features_, pending >>

\* ------------------------------------------------------------------ exit
\* the steps of exit() that follow the join
TeardownSteps == {"exit_stop", "exit_save", "exit_listeners"}

\* ofApp::exit(), first statement: if (training_thread_.joinable()) join();
\* exit() is called by the event loop, between two handlers
ExitJoin ==
    /\ main_pc = "idle"
    /\ JoinTrainingThread
    /\ main_pc' = "exit_stop"
    /\ UNCHANGED << keys_down, prod_pc, input_data_mutex_, input_data_, prod_input,
                    raced, row_i, started, trained, is_recording_, label_,
                    sample_data_, training_data_, plot_samples_info_,
                    should_save_training_data_, fragment_, gui_hide_,
                    trains_in_progress, checker_calls, last, pipeline_modules,
                    tick_log, train_succeeded, pipeline_loaded >>
    /\ UNCHANGED tuneable_vars
    /\ UNCHANGED << feature_dims, plot_features_, pending >>

\* istream_->stop()
ExitStop ==
    /\ main_pc = "exit_stop"
    /\ started' = FALSE
    /\ main_pc' = "exit_save"
    /\ UNCHANGED << keys_down, prod_pc, input_data_mutex_, input_data_, prod_input,
                    raced, row_i, trained, is_recording_, label_,
                    sample_data_, training_data_, plot_samples_info_,
                    should_save_training_data_, fragment_, gui_hide_,
                    training_thread_, trains_in_progress, checker_calls, last,
                    pipeline_modules, tick_log, train_succeeded, pipeline_loaded >>
    /\ UNCHANGED tuneable_vars
    /\ UNCHANGED << feature_dims, plot_features_, pending >>

\* if (should_save_training_data_) the save dialog; training_data_.save(path)
\* writes the file and leaves the dataset as it is
ExitSave ==
    /\ main_pc = "exit_save"
    /\ main_pc' = "exit_listeners"
    /\ UNCHANGED << keys_down, prod_pc, input_data_mutex_, input_data_, prod_input,
                    raced, row_i, started, trained, is_recording_, label_,
                    sample_data_, training_data_, plot_samples_info_,
                    should_save_training_data_, fragment_, gui_hide_,
                    training_thread_, trains_in_progress, checker_calls, last,
                    pipeline_modules, tick_log, train_succeeded, pipeline_loaded >>
    /\ UNCHANGED tuneable_vars
    /\ UNCHANGED << feature_dims, plot_features_, pending >>

\* the button listeners are removed and exit() returns
ExitRemoveListeners ==
    /\ main_pc = "exit_listeners"
    /\ main_pc' = "exited"
    /\ UNCHANGED << keys_down, prod_pc, input_data_mutex_, input_data_, prod_input,
                    raced, row_i, started, trained, is_recording_, label_,
                    sample_data_, training_data_, plot_samples_info_,
                    should_save_training_data_, fragment_, gui_hide_,
                    training_thread_, trains_in_progress, checker_calls, last,
                    pipeline_modules, tick_log, train_succeeded, pipeline_loaded >>
    /\ UNCHANGED tuneable_vars
    /\ UNCHANGED << feature_dims, plot_features_, pending >>

\* -------------------------------------------------------------- Tuneable
\* An int is modelled by an integer, a bool by 0 or 1 and a double by a
\* fixed-point number: the integer v stands for v / 10^DoubleDigits. A line of
\* text is its first word and the characters that follow the separating blank.
ToStringPrecision == 6   \* std::to_string(double) prints "%f": six decimals

RECURSIVE Pow10(_)
Pow10(n) == IF n = 0 THEN 1 ELSE 10 * Pow10(n - 1)

\* 1.0 as a modelled double
One == Pow10(DoubleDigits)

Digits == << "0", "1", "2", "3", "4", "5", "6", "7", "8", "9" >>
DigitChars == { Digits[i] : i \in 1 .. 10 }
DigitChar(d) == Digits[d + 1]
DigitValue(c) == CHOOSE d \in 0 .. 9 : Digits[d + 1] = c

TrueWord == << "t", "r", "u", "e" >>
FalseWord == << "f", "a", "l", "s", "e" >>

\* the decimal digits of a natural number, most significant first
RECURSIVE NatToString(_)
NatToString(n) ==
    IF n < 10 THEN << DigitChar(n) >>
    ELSE Append(NatToString(n \div 10), DigitChar(n % 10))

\* the last width digits of n, with leading zeros
RECURSIVE PadDigits(_, _)
PadDigits(n, width) ==
    IF width = 0 THEN << >>
    ELSE Append(PadDigits(n \div 10, width - 1), DigitChar(n % 10))

\* std::to_string(int)
IntToString(n) == IF n < 0 THEN << "-" >> \o NatToString(-n) ELSE NatToString(n)

\* std::to_string(double): "%f", the value rounded to ToStringPrecision decimals
DoubleToString(v) ==
    LET mag == IF v < 0 THEN -v ELSE v
        scale == Pow10(DoubleDigits - ToStringPrecision)
        rounded == (mag + scale \div 2) \div scale
        whole == rounded \div Pow10(ToStringPrecision)
        frac == rounded % Pow10(ToStringPrecision)
    IN (IF v < 0 THEN << "-" >> ELSE << >>)
         \o NatToString(whole) \o << "." >> \o PadDigits(frac, ToStringPrecision)

\* the digits a numeric extraction consumes at the front of chars
RECURSIVE LeadingDigits(_)
LeadingDigits(chars) ==
    IF chars = << >> THEN << >>
    ELSE IF Head(chars) \in DigitChars
         THEN << Head(chars) >> \o LeadingDigits(Tail(chars))
         ELSE << >>

RECURSIVE DigitsValue(_)
DigitsValue(ds) ==
    IF ds = << >> THEN 0
    ELSE 10 * DigitsValue(SubSeq(ds, 1, Len(ds) - 1)) + DigitValue(ds[Len(ds)])

\* iss >> *p for an int: sign, digits up to the first other character; 0 when
\* no digit is found
ParseInt(chars) ==
    LET neg == chars # << >> /\ Head(chars) = "-"
        body == IF neg THEN Tail(chars) ELSE chars
        ds == LeadingDigits(body)
    IN IF ds = << >> THEN 0
       ELSE (IF neg THEN -1 ELSE 1) * DigitsValue(ds)

\* iss >> *p for a double: sign, digits, '.', digits; 0 when no digit is found
ParseDouble(chars) ==
    LET neg == chars # << >> /\ Head(chars) = "-"
        body == IF neg THEN Tail(chars) ELSE chars
        ip == LeadingDigits(body)
        rest == SubSeq(body, Len(ip) + 1, Len(body))
        fp == IF rest # << >> /\ Head(rest) = "." THEN LeadingDigits(Tail(rest))
              ELSE << >>
        kept == SubSeq(fp, 1, IF Len(fp) < DoubleDigits THEN Len(fp) ELSE DoubleDigits)
    IN IF ip = << >> /\ fp = << >> THEN 0
       ELSE (IF neg THEN -1 ELSE 1)
               * (DigitsValue(ip) * One + DigitsValue(kept) * Pow10(DoubleDigits - Len(kept)))

\* the constructors: the pointer's target, the kind, the range and the callback
\* are stored as given
Tuneable(type, value, min, max, cb) ==
    [type_ |-> type, value |-> value, min_ |-> min, max_ |-> max, cb |-> cb]

\* Tuneable::toString()
TuneableToString(t) ==
    CASE t.type_ = "INT_RANGE" -> [word |-> "INT", rest |-> IntToString(t.value)]
      [] t.type_ = "DOUBLE_RANGE" -> [word |-> "DOUBLE", rest |-> DoubleToString(t.value)]
      [] t.type_ = "BOOL" ->
            [word |-> "BOOL", rest |-> IF t.value = 1 THEN TrueWord ELSE FalseWord]
      [] OTHER -> NoLine

\* the values of the bound variables in the bounded runs
IntValues == (0 - MaxInt) .. MaxInt
DoubleValues ==
    { k * (One \div 2) : k \in (0 - MaxInt) .. MaxInt }
       \cup { f : f \in (0 - MaxFine) .. MaxFine }
BoolValues == {0, 1}

ValuesOf(type) ==
    CASE type = "INT_RANGE" -> IntValues
      [] type = "DOUBLE_RANGE" -> DoubleValues
      [] OTHER -> BoolValues

\* the ranges given at registration, in the units of the kind
RangesOf(type) ==
    CASE type = "INT_RANGE" -> { << 0, MaxInt >> }
      [] type = "DOUBLE_RANGE" -> { << 0 - One, 3 * One >> }
      [] OTHER -> { << 0, 0 >> }

\* what a write through a pointer of the wrong type can leave in the variable
GarbageValues(t) == ValuesOf(t.type_)

\* Tuneable::fromString(str): the values *value_ptr_ can hold afterwards. The
\* branch is chosen by the first word of the line, not by type_; an extraction
\* from a stream already at its end stores nothing
TuneableFromString(t, line) ==
    CASE line.word = "INT" ->
            IF t.type_ # "INT_RANGE" THEN GarbageValues(t)
            ELSE IF line.rest = << >> THEN { t.value }
            ELSE { ParseInt(line.rest) }
      [] line.word = "DOUBLE" ->
            IF t.type_ # "DOUBLE_RANGE" THEN GarbageValues(t)
            ELSE IF line.rest = << >> THEN { t.value }
            ELSE { ParseDouble(line.rest) }
      [] line.word = "BOOL" ->
            IF t.type_ # "BOOL" THEN GarbageValues(t)
            ELSE { IF line.rest = TrueWord THEN 1 ELSE 0 }
      [] OTHER -> { t.value }

\* what fromString(str) returns: return false, on every path
FromStringResult(t, line) == FALSE

\* the first word toString() writes for a kind
KindTag(type) ==
    CASE type = "INT_RANGE" -> "INT"
      [] type = "DOUBLE_RANGE" -> "DOUBLE"
      [] type = "BOOL" -> "BOOL"
      [] OTHER -> ""

\* lines a saved settings file can hold besides those written by toString()
FileLines ==
    { [word |-> "INT", rest |-> IntToString(n)] : n \in {5, 10 * MaxInt} }
       \cup { [word |-> "INT", rest |-> << >>],
              [word |-> "INT", rest |-> << "x" >>],
              [word |-> "DOUBLE", rest |-> << "2", ".", "5" >>],
              [word |-> "DOUBLE", rest |-> IntToString(MaxInt)],
              [word |-> "BOOL", rest |-> TrueWord],
              [word |-> "BOOL", rest |-> << "1" >>],
              [word |-> "SET", rest |-> << "1" >>] }

\* registerTuneable(value, min, max, name, description, cb), called by the
\* user's setup(): the variable holds a value of the range
RegisterTuneable(type, value, min, max, cb) ==
    /\ tuneable.type_ = "NONE"
    /\ min <= value /\ value <= max
    /\ tuneable' = Tuneable(type, value, min, max, cb)
    /\ tuneable_op' = [op |-> "registerTuneable", line |-> NoLine, ret |-> FALSE]
    /\ UNCHANGED << tuneable_text, cb_calls, reloads >>
    /\ UNCHANGED app_vars

\* a call of toString(); the line is kept (written to the settings file)
CallToString ==
    /\ tuneable.type_ # "NONE"
    /\ tuneable_text' = TuneableToString(tuneable)
    /\ tuneable_op' = [op |-> "toString", line |-> NoLine, ret |-> FALSE]
    /\ UNCHANGED << tuneable, cb_calls, reloads >>
    /\ UNCHANGED app_vars

\* variant: the decoded value is passed to the callback as a UI event would
CallFromStringNotifying(line) ==
    /\ tuneable.type_ # "NONE"
    /\ cb_calls < MaxEvents
    /\ \E v \in TuneableFromString(tuneable, line) :
          tuneable' = [tuneable EXCEPT !.value = v]
    /\ tuneable_op' = [op |-> "fromString", line |-> line,
                        ret |-> FromStringResult(tuneable, line)]
    /\ cb_calls' = cb_calls + 1
    /\ UNCHANGED << tuneable_text, reloads >>
    /\ UNCHANGED app_vars

\* a call of fromString(line): the value is written through value_ptr_ and the
\* control is set to it; fromString returns false
CallFromString(line) ==
    /\ tuneable.type_ # "NONE"
    /\ \E v \in TuneableFromString(tuneable, line) :
          tuneable' = [tuneable EXCEPT !.value = v]
    /\ tuneable_op' = [op |-> "fromString", line |-> line,
                        ret |-> FromStringResult(tuneable, line)]
    /\ UNCHANGED << tuneable_text, cb_calls, reloads >>
    /\ UNCHANGED app_vars

\* the slider keeps its value between the minimum and maximum it was made with
Clamp(v, min, max) == IF v < min THEN min ELSE IF v > max THEN max ELSE v

\* onSliderEvent / onToggleEvent: the operator moved the control to v; the
\* value is written back, then the callback is called if there is one, else the
\* pipeline is reloaded
OnUIEvent(v) ==
    /\ tuneable.type_ # "NONE"
    /\ cb_calls + reloads < MaxEvents
    /\ tuneable' = [tuneable EXCEPT
                       !.value = IF tuneable.type_ = "BOOL" THEN v
                                 ELSE Clamp(v, tuneable.min_, tuneable.max_)]
    /\ IF tuneable.cb
       THEN cb_calls' = cb_calls + 1 /\ UNCHANGED reloads
       ELSE reloads' = reloads + 1 /\ UNCHANGED cb_calls
    /\ tuneable_op' = [op |-> "onUIEvent", line |-> NoLine, ret |-> FALSE]
    /\ UNCHANGED tuneable_text
    /\ UNCHANGED app_vars

\* ------------------------------------------------------------------ spec
\* every key of the alphabet, both threads
Next ==
    \/ \E key \in Keys : KeyPressed(key)
    \/ \E key \in Keys : KeyReleased(key)
    \/ ClearInput
    \/ \E ok \in BOOLEAN : TrainReturn(ok)
    \/ UpdateLock
    \/ UpdateLoop
    \/ UpdatePipeline
    \/ UpdatePredict
    \/ \E input \in StreamBatches : OnDataInLock(input)
    \/ OnDataInWrite

Spec == Init /\ [][Next]_vars

\* the operator records and loads training data: label keys, 'l', 's' and a
\* key without a command; the stream delivers and the ticks run. No handler of
\* this alphabet touches input_data_ outside the mutex, so update() and
\* onDataIn() are taken as whole steps
RecordingKeys == LabelKeys \cup {KeyL, KeyS, KeyOther}

NextRecording ==
    \/ \E key \in RecordingKeys : KeyPressed(key)
    \/ \E key \in RecordingKeys : KeyReleased(key)
    \/ UpdateTick
    \/ \E input \in StreamBatches : OnDataIn(input)

SpecRecording == Init /\ [][NextRecording]_vars

\* recording sessions alone: the operator starts the stream and records with
\* the label keys, several of which may be held at once
SessionKeys == LabelKeys \cup {KeyS}

NextSession ==
    \/ \E key \in SessionKeys : KeyPressed(key)
    \/ \E key \in SessionKeys : KeyReleased(key)
    \/ UpdateTick
    \/ \E input \in StreamBatches : OnDataIn(input)

SpecSession == Init /\ [][NextSession]_vars

\* the operator starts and pauses the stream and trains, recording with one
\* label key meanwhile; the stream delivers and the ticks run
IngestKeys == {Key1, KeyT, KeyS, KeyE}

NextIngest ==
    \/ \E key \in IngestKeys : KeyPressed(key)
    \/ \E key \in IngestKeys : KeyReleased(key)
    \/ ClearInput
    \/ \E ok \in BOOLEAN : TrainReturn(ok)
    \/ UpdateLock
    \/ UpdateLoop
    \/ UpdatePipeline
    \/ UpdatePredict
    \/ \E input \in StreamBatches : OnDataInLock(input)
    \/ OnDataInWrite

SpecIngest == Init /\ [][NextIngest]_vars


\* the life of the pipeline: the operator starts the stream, records with one
\* label key, trains, loads a stored pipeline and quits; the stream delivers
\* and the ticks run
LifecycleKeys == {Key1, KeyT, KeyS}

NextLifecycle ==
    \/ \E key \in LifecycleKeys : KeyPressed(key)
    \/ \E key \in LifecycleKeys : KeyReleased(key)
    \/ \E ok \in BOOLEAN : TrainReturn(ok)
    \/ \E file \in PipelineFiles : LoadPipeline(TRUE, file)
    \/ LoadPipeline(FALSE, NewPipeline)
    \/ UpdateLock
    \/ UpdateLoop
    \/ UpdatePipeline
    \/ UpdatePredict
    \/ \E input \in StreamBatches : OnDataInLock(input)
    \/ OnDataInWrite
    \/ ExitJoin
    \/ ExitStop
    \/ ExitSave
    \/ ExitRemoveListeners

SpecLifecycle == Init /\ [][NextLifecycle]_vars


\* the tuneable registry: setup() registers a tuneable, the operator moves its
\* control, and the settings are written to and read from text
TuneableTypes == {"INT_RANGE", "DOUBLE_RANGE", "BOOL"}

NextTuneable ==
    \/ \E type \in TuneableTypes : \E range \in RangesOf(type) :
          \E value \in ValuesOf(type) : \E cb \in BOOLEAN :
             RegisterTuneable(type, value, range[1], range[2], cb)
    \/ CallToString
    \/ \E line \in FileLines \cup {tuneable_text} : CallFromString(line)
    \/ \E v \in ValuesOf(tuneable.type_) : OnUIEvent(v)

SpecTuneable == Init /\ [][NextTuneable]_vars


\* the hand-off of batches from the stream to the ticks while the operator
\* records with one label key; delivered rows are counted until a tick has run
HandoffKeys == {Key1, KeyS}

NextHandoff ==
    \/ \E key \in HandoffKeys : KeyPressed(key)
    \/ \E key \in HandoffKeys : KeyReleased(key)
    \/ UpdateTickCounted
    \/ \E input \in StreamBatches : OnDataInCounted(input)

SpecHandoff == Init /\ [][NextHandoff]_vars

\* the ticks of a started stream for every pipeline a user's setup() can make
NextPlotting ==
    \/ KeyPressed(KeyS)
    \/ KeyReleased(KeyS)
    \/ UpdateLock
    \/ UpdateLoop
    \/ UpdatePipeline
    \/ UpdatePredict
    \/ \E input \in StreamBatches : OnDataInLock(input)
    \/ OnDataInWrite

SpecPlotting == InitAnyPipeline /\ [][NextPlotting]_vars


\* ================================================================ claims

\* C1: for every sequence of train commands, at most one invocation of
\* pipeline.train is in progress: a new one starts only when no earlier one is
\* still running and no joinable training thread is left unjoined.
C1_TrainerMutualExclusion ==
    /\ trains_in_progress <= 1
    /\ trains_in_progress = 1 => ~Joinable(training_thread_)

\* C1 witness: a second training job is running after an earlier one succeeded
C1_SecondTrainingRuns == trains_in_progress = 1 /\ main_pc = "train" /\ trained

\* C2 (as claimed): the consumer tick never holds the ingestion mutex while a
\* pipeline stage (preProcessData, read-out, predict) is being evaluated.
C2_MutexNotHeldAcrossPipeline ==
    ~(input_data_mutex_ = "main" /\ main_pc \in {"pipeline", "predict"})

\* a thread is reading or writing input_data_
MainAccessesInput == main_pc \in {"loop", "clear"}
ProducerAccessesInput == prod_pc = "write"

\* C3 (as claimed): every read or write of input_data_ is made by a thread that
\* holds input_data_mutex_, so the accesses of the two threads never overlap.
C3_EveryAccessHoldsMutex ==
    /\ MainAccessesInput => input_data_mutex_ = "main"
    /\ ProducerAccessesInput => input_data_mutex_ = "prod"
    /\ ~(MainAccessesInput /\ ProducerAccessesInput)

\* C4 (as claimed): whichever checker is registered, a key release ending a
\* recording session whose collected sequence the checker fails appends nothing
\* to the training dataset and leaves the class tracker as it was.
C4_FailedCheckRejectsSample ==
    [][\A c \in Checkers : \A key \in LabelKeys :
          (is_recording_ /\ KeyReleased(key)
             /\ CheckerResult(c, sample_data_) = "FAILURE")
          => training_data_' = training_data_]_vars

\* C5 (as claimed): the key release that completes a recording session invokes
\* the registered checker exactly once (before any addSample of the session).
C5_CheckerInvokedOncePerSession ==
    [][\A key \in Keys :
          (is_recording_ /\ KeyReleased(key)) => checker_calls' = checker_calls + 1]_vars

\* C6: a label key-press received while Recording leaves the recording flag, the
\* active label and the in-progress sample buffer unchanged.
C6_LabelPressWhileRecordingIgnored ==
    [][\A key \in LabelKeys :
          (is_recording_ /\ KeyPressed(key))
          => UNCHANGED << is_recording_, label_, sample_data_ >>]_vars

\* C6 witness: a label key was pressed while a recording was going on
C6_LabelPressedWhileRecording ==
    last.op = "keyPressed" /\ last.digit /\ last.rec /\ is_recording_

\* C7 (as claimed): while Recording(label), the release of a key other than the
\* label's key leaves the controller Recording and appends nothing.
C7_OnlyLabelKeyReleaseEnds ==
    [][\A key \in Keys :
          (is_recording_ /\ key # Key0 + label_ /\ KeyReleased(key))
          => (is_recording_' /\ training_data_' = training_data_)]_vars

\* C8: a successful addSample(L, sequence) on a label key release raises the
\* class tracker's count of L by exactly 1 and leaves every other label's count.
C8_AddSampleCountsOne ==
    [][\A key \in LabelKeys :
          (KeyReleased(key) /\ AddSampleOk(training_data_, label_, sample_data_))
          => /\ TrackerCount(training_data_', label_)
                   = TrackerCount(training_data_, label_) + 1
             /\ \A l \in Labels \ {label_} :
                   TrackerCount(training_data_', l) = TrackerCount(training_data_, l)]_vars

\* C8 witness: a session ended with a successful add while another label
\* already had samples
C8_SampleAddedBesideOtherLabel ==
    /\ last.op = "keyReleased" /\ last.digit /\ last.rec /\ last.add = "ok"
    /\ Len(training_data_.classTracker) >= 2

\* C9 (as claimed): when addSample fails on a dimensionality mismatch the dataset
\* and tracker are unchanged and the controller neither reads a tracker entry
\* for the label nor marks the dataset as needing to be saved.
C9_FailedAddIsNotAnAdd ==
    [][\A key \in LabelKeys :
          (KeyReleased(key) /\ ~AddSampleOk(training_data_, label_, sample_data_))
          => /\ training_data_' = training_data_
             /\ plot_samples_info_' = plot_samples_info_
             /\ should_save_training_data_' = should_save_training_data_
             /\ main_pc' = "idle"]_vars

\* C10 (as claimed): when load of the chosen file fails, the members and the
\* class tracker of the training dataset are what they were before the command.
C10_FailedLoadKeepsDataset ==
    [][KeyPressedWith(KeyL, FALSE, NewDataset)
          => /\ training_data_'.data = training_data_.data
             /\ training_data_'.classTracker = training_data_.classTracker]_vars

\* C11 (as claimed): when loading the pipeline from storage fails, the live
\* pipeline (its modules and its trained flag) is what it was before.
C11_FailedLoadKeepsPipeline ==
    [][LoadPipeline(FALSE, NewPipeline)
          => UNCHANGED << pipeline_modules, trained >>]_vars

\* C12 (as claimed): for a Tuneable of any kind and any value of its bound
\* state, fromString applied to the line toString returned leaves the bound
\* state equal to the value it had when toString was called.
C12_TuneableRoundTrip ==
    [][(/\ tuneable_op.op = "toString"
        /\ tuneable_text = TuneableToString(tuneable)
        /\ tuneable_op'.op = "fromString"
        /\ tuneable_op'.line = tuneable_text)
          => tuneable'.value = tuneable.value]_vars

\* the ints whose lines are read in the bounded runs
DecodedInts == IntValues \cup {10 * MaxInt}

\* C13: a call of fromString writes the decoded value into the bound state (the
\* int n for the line "INT n", true for "BOOL true") and neither invokes the
\* tuneable's callback nor reloads the pipeline.
C13_FromStringSkipsCallback ==
    [][tuneable_op'.op = "fromString"
          => /\ cb_calls' = cb_calls
             /\ reloads' = reloads
             /\ UNCHANGED << pipeline_modules, trained >>
             /\ \A n \in DecodedInts :
                   (/\ tuneable.type_ = "INT_RANGE"
                    /\ tuneable_op'.line = [word |-> "INT", rest |-> IntToString(n)])
                   => tuneable'.value = n
             /\ (/\ tuneable.type_ = "BOOL"
                 /\ tuneable_op'.line = [word |-> "BOOL", rest |-> TrueWord])
                   => tuneable'.value = 1]_vars

\* C13 witness: fromString has written 5 into an int tuneable that has a
\* callback, and the callback was never invoked
C13_DecodedWithCallbackRegistered ==
    /\ tuneable_op.op = "fromString"
    /\ tuneable_op.line = [word |-> "INT", rest |-> << "5" >>]
    /\ tuneable.type_ = "INT_RANGE" /\ tuneable.cb
    /\ tuneable.value = 5
    /\ cb_calls = 0

\* C14 (as claimed): a ranged tuneable's bound value lies between its minimum
\* and maximum after any sequence of registration, UI events and fromString.
C14_RangedValueWithinRange ==
    tuneable.type_ \in {"INT_RANGE", "DOUBLE_RANGE"}
       => (tuneable.min_ <= tuneable.value /\ tuneable.value <= tuneable.max_)

\* C15: on exit the join of a joinable training thread comes first: no later
\* teardown step (stopping the stream, saving the training data, removing the
\* listeners) runs while a training job is in flight or its thread is unjoined.
C15_NoTeardownDuringTraining ==
    main_pc \in TeardownSteps \cup {"exited"}
       => (trains_in_progress = 0 /\ ~Joinable(training_thread_))

\* C15 witness: the stream is being stopped on exit after a training job ran
C15_TeardownAfterTraining ==
    main_pc = "exit_stop" /\ train_succeeded /\ started

\* C16 (as claimed): after a train command the key handler returns and the
\* ticks go on while pipeline.train is in progress.
C16_TrainingLeavesTicksRunning ==
    trains_in_progress > 0 => main_pc # "train"

\* C17: update never calls predict or reads the classifier outputs while a call
\* of pipeline.train is in progress.
C17_NoPredictDuringTraining ==
    trains_in_progress > 0 => (main_pc # "predict" /\ ~tick_log.predicted)

\* C17 witness: a tick called predict after a training job had succeeded
C17_PredictAfterTraining ==
    tick_log.predicted /\ train_succeeded /\ trains_in_progress = 0

\* C18 (as claimed): the trained flag is false in every state before the first
\* successful train completes, and a tick calls predict only when it is true.
C18_TrainedOnlyAfterTraining ==
    /\ trained => train_succeeded
    /\ tick_log.predicted => trained

\* C18 (amended): the trained flag is false in every state before the first
\* successful train completes or a stored pipeline is loaded, and a tick calls
\* predict only when the flag is true.
C18_TrainedOnlyAfterTrainingOrLoad ==
    /\ trained => (train_succeeded \/ pipeline_loaded)
    /\ tick_log.predicted => trained

\* C18 witness: a tick called predict on a loaded pipeline before any training
C18_PredictOnLoadedPipeline ==
    tick_log.predicted /\ pipeline_loaded /\ ~train_succeeded

\* C19 (as claimed): when preProcessData fails for a sample, no module output is
\* read out for that sample and predict is not called on it.
C19_FailedStageAbortsSample ==
    tick_log.failed => (~tick_log.read_out /\ ~tick_log.predicted)

\* C20 (as claimed): the dataset's configured dimensionality and the
\* dimensionality of every member are the stream's, whatever sessions and loads
\* came before.
C20_DatasetKeepsDimensionality ==
    /\ training_data_.numDimensions = NumOutputDimensions
    /\ \A i \in 1 .. Len(training_data_.data) :
          training_data_.data[i].cols = NumOutputDimensions

\* C21: a label key-press received while Idle moves the controller to Recording
\* with the label equal to the digit pressed (1..9) and an empty in-progress
\* sample buffer, whatever the buffer held before.
C21_LabelPressStartsRecording ==
    [][\A key \in LabelKeys :
          (~is_recording_ /\ KeyPressed(key))
          => /\ is_recording_'
             /\ label_' \in 1 .. 9
             /\ Key0 + label_' = key
             /\ sample_data_' = EmptyMatrix]_vars

\* C21 witness: a second session was started by a label key while idle; the
\* buffer still held the rows of the session recorded before
C21_SecondSessionStarted ==
    /\ last.op = "keyPressed" /\ last.digit /\ ~last.rec
    /\ is_recording_ /\ sample_data_.rows = 0
    /\ Len(training_data_.data) >= 1

\* C22 (as claimed): a 't' key-press received while Recording does not invoke
\* pipeline.train: Training and Recording are never active at the same time.
C22_NoTrainingWhileRecording ==
    ~(is_recording_ /\ trains_in_progress > 0)

\* a number can be extracted from the characters: an optional sign and a digit
HasNumber(chars) ==
    LET body == IF chars # << >> /\ Head(chars) = "-" THEN Tail(chars) ELSE chars
    IN LeadingDigits(body) # << >>

\* the line is a well-formed "<KIND> <value>" for the tuneable
WellFormed(t, line) ==
    /\ t.type_ # "NONE"
    /\ line.word = KindTag(t.type_)
    /\ IF t.type_ = "BOOL" THEN line.rest \in {TrueWord, FalseWord}
       ELSE HasNumber(line.rest)

\* C23 (as claimed): fromString returns true when the line is a well-formed
\* "<KIND> <value>" that was decoded into the bound state, and false when the
\* kind tag is unknown or the value cannot be parsed.
C23_ReturnIndicatesSuccess ==
    tuneable_op.op = "fromString"
       => (tuneable_op.ret <=> WellFormed(tuneable, tuneable_op.line))

\* C26 (as claimed): addSample is called on a label key-release only if the
\* controller was Recording immediately before that release, so a sample is
\* appended only by a release that ends a session.
C26_OneSamplePerSession ==
    ~(last.op = "keyReleased" /\ last.digit /\ ~last.rec /\ last.add = "ok")

\* C28 (as claimed): when the line's kind tag does not match the Tuneable's
\* type_, fromString leaves the bound state unchanged.
C28_MismatchedTagLeavesState ==
    [][(/\ tuneable_op'.op = "fromString"
        /\ tuneable_op'.line.word \in {"INT", "DOUBLE", "BOOL"}
        /\ tuneable_op'.line.word # KindTag(tuneable.type_))
          => tuneable'.value = tuneable.value]_vars

\* the count shown for every label is the class tracker's (nothing or 0 for a
\* label without samples)
DisplayAgrees ==
    \A l \in Labels :
       IF TrackerCount(training_data_, l) = 0
       THEN plot_samples_info_[l] \in {NoInfo, SamplesInfo(0)}
       ELSE plot_samples_info_[l] = SamplesInfo(TrackerCount(training_data_, l))

\* C27 (as claimed): after every mutation of the training dataset (a recorded
\* sample or a load) the count shown for each label agrees with classTracker().
\* Stated for the mutations that leave samples in the dataset, which a failed
\* load does not.
C27_DisplayFollowsTracker ==
    [][(/\ DisplayAgrees
        /\ training_data_' # training_data_
        /\ Len(training_data_'.data) > 0) => DisplayAgrees']_vars

\* C24 (as claimed): a tick that runs with no delivery since the tick before
\* processes no sample: while Recording it appends nothing to the buffer.
C24_NoBatchEvaluatedTwice ==
    [][(/\ pending = 0 /\ pending' = 0
        /\ is_recording_ /\ is_recording_')
            => sample_data_'.rows <= sample_data_.rows]_vars

\* C25 (as claimed): every delivered row is evaluated by some tick: the rows
\* delivered since the last tick are all still in the buffer for the next one.
C25_NoBatchLost ==
    pending <= input_data_.rows

\* C29 (as claimed): the assertion plot_features_.size() == 1 holds in every
\* tick that reaches it.
C29_AssertionHolds ==
    tick_log.asserted # "failed"

====
